---- MODULE Spec2Model ----
\* Model of the slash-command auto-fixer (fix_commands.py) and validator
\* (validate_commands.py).
\*
\* Representation.  A Python str is a sequence of atoms; an atom is an
\* indivisible run of characters (a word, a bracket, a separator).  A text
\* (file content) is the sequence of its lines, text.split("\n"): a final
\* blank line stands for a terminating line break.  A decoded YAML value is a
\* tagged record (str, list of str, bool, None); a metadata dict is a function
\* from the keys it holds to their values.
\*
\* A value computed once and used many times is passed on as an operator
\* argument, so each operator below is one stretch of the code it models.
EXTENDS Integers, Sequences, FiniteSets, TLC

\* ------------------------------------------------------------------ bounds
MaxPasses == 2          \* fix/validate passes per behaviour
MaxFmLines == 2         \* metadata entries of an input document

\* ------------------------------------------------------------------ sequences
RECURSIVE Concat(_)
Concat(ss) == IF ss = <<>> THEN <<>> ELSE Head(ss) \o Concat(Tail(ss))

\* sep.join(l) for a list l of strs
RECURSIVE Join(_, _)
Join(sep, l) ==
  IF l = <<>> THEN <<>>
  ELSE IF Len(l) = 1 THEN l[1]
  ELSE l[1] \o <<sep>> \o Join(sep, Tail(l))

Last(s) == s[Len(s)]
Interior(s) == SubSeq(s, 2, Len(s) - 1)
Range(s) == { s[i] : i \in DOMAIN s }
SeqMax(a, b) == IF a >= b THEN a ELSE b

\* ------------------------------------------------------------------ lines
Marker == [t |-> "marker", key |-> "", style |-> "", toks |-> <<>>]
Blank == [t |-> "blank", key |-> "", style |-> "", toks |-> <<>>]
KV(k, st, tk) == [t |-> "kv", key |-> k, style |-> st, toks |-> tk]
Item(st, tk) == [t |-> "item", key |-> "", style |-> st, toks |-> tk]
Txt(tk) == [t |-> "text", key |-> "", style |-> "", toks |-> tk]

\* str.strip() of a text: leading and trailing blank lines go
RECURSIVE LStrip(_)
LStrip(ls) == IF ls # <<>> /\ Head(ls) = Blank THEN LStrip(Tail(ls)) ELSE ls
RECURSIVE RStrip(_)
RStrip(ls) ==
  IF ls # <<>> /\ Last(ls) = Blank THEN RStrip(SubSeq(ls, 1, Len(ls) - 1)) ELSE ls
Strip(ls) == RStrip(LStrip(ls))

\* ------------------------------------------------------------------ values
Str(s) == [ty |-> "str", s |-> s, l |-> <<>>, b |-> FALSE]
List(l) == [ty |-> "list", s |-> <<>>, l |-> l, b |-> FALSE]
Bool(b) == [ty |-> "bool", s |-> <<>>, l |-> <<>>, b |-> b]
None == [ty |-> "none", s |-> <<>>, l |-> <<>>, b |-> FALSE]

EmptyDict == [k \in {} |-> None]
DictSet(d, k, v) == [x \in DOMAIN d \cup {k} |-> IF x = k THEN v ELSE d[x]]

\* yaml.dump sorts the keys of a mapping
KeyOrder == <<"allowed-tools", "argument-hint", "description",
              "disable-model-invocation", "model", "version">>

\* ------------------------------------------------------------------ YAML
\* atoms that cannot occur inside a plain flow-sequence entry
FlowSpecial == {"[", "]", "{", "}", ", ", "\"", "'", " "}
\* atoms that cannot start a plain scalar
Indicators == {"[", "]", "{", "}", ", ", "\"", "'", " ", "- "}

Ok(v) == [ok |-> TRUE, v |-> v]
Err == [ok |-> FALSE, v |-> None]

\* entries of a flow sequence "[a, b]" given the atoms between the brackets
FlowEntriesOk(in) ==
  \/ in = <<>>
  \/ /\ Len(in) % 2 = 1
     /\ \A i \in 1..Len(in) :
          IF i % 2 = 1 THEN in[i] \notin FlowSpecial ELSE in[i] = ", "
FlowEntries(in) == [i \in 1..((Len(in) + 1) \div 2) |-> <<in[2 * i - 1]>>]

\* yaml.safe_load of one scalar / flow node
ScalarLoad(style, toks) ==
  CASE style = "dq" -> IF "\"" \in Range(toks) THEN Err ELSE Ok(Str(toks))
    [] style = "sq" -> IF "'" \in Range(toks) THEN Err ELSE Ok(Str(toks))
    [] OTHER ->
        IF toks = <<>> \/ toks = <<"null">> THEN Ok(None)
        ELSE IF toks = <<"true">> THEN Ok(Bool(TRUE))
        ELSE IF toks = <<"false">> THEN Ok(Bool(FALSE))
        ELSE IF Head(toks) = "["
          THEN IF Len(toks) >= 2 /\ Last(toks) = "]" /\ FlowEntriesOk(Interior(toks))
                 THEN Ok(List(FlowEntries(Interior(toks))))
                 ELSE Err
        ELSE IF Head(toks) \in Indicators THEN Err
        ELSE IF ": " \in Range(toks) THEN Err
        ELSE Ok(Str(toks))

\* the "- item" lines from position i on
RECURSIVE ItemsFrom(_, _)
ItemsFrom(ls, i) ==
  IF i <= Len(ls) /\ ls[i].t = "item" THEN <<ls[i]>> \o ItemsFrom(ls, i + 1) ELSE <<>>

LoadFailed == [ok |-> FALSE, dict |-> FALSE, md |-> EmptyDict]

\* the entries of a block sequence, loaded
ItemsLoad(items) == [j \in 1..Len(items) |-> ScalarLoad(items[j].style, items[j].toks)]
ItemsOk(rs) == \A j \in 1..Len(rs) : rs[j].ok /\ rs[j].v.ty = "str"
ItemsValue(rs) == List([j \in 1..Len(rs) |-> rs[j].v.s])

\* yaml.safe_load of a block of lines: [ok, dict, md]
\* ok = FALSE: yaml.YAMLError; dict = FALSE: the document is not a mapping
RECURSIVE LoadFrom(_, _, _)
LoadSequence(ls, i, md, items, rs) ==
  IF ls[i].toks # <<>> \/ ls[i].style # "plain" \/ ~ItemsOk(rs) THEN LoadFailed
  ELSE LoadFrom(ls, i + 1 + Len(items), DictSet(md, ls[i].key, ItemsValue(rs)))
LoadScalar(ls, i, md, r) ==
  IF ~r.ok THEN LoadFailed ELSE LoadFrom(ls, i + 1, DictSet(md, ls[i].key, r.v))
LoadEntry(ls, i, md, items) ==
  IF items # <<>> THEN LoadSequence(ls, i, md, items, ItemsLoad(items))
  ELSE LoadScalar(ls, i, md, ScalarLoad(ls[i].style, ls[i].toks))
LoadFrom(ls, i, md) ==
  IF i > Len(ls) THEN [ok |-> TRUE, dict |-> TRUE, md |-> md]
  ELSE IF ls[i].t = "blank" THEN LoadFrom(ls, i + 1, md)
  ELSE IF ls[i].t # "kv" THEN LoadFailed
  ELSE LoadEntry(ls, i, md, ItemsFrom(ls, i + 1))

YamlLoad(ls) ==
  IF \A i \in 1..Len(ls) : ls[i].t \in {"blank", "text"}
    THEN [ok |-> TRUE, dict |-> FALSE, md |-> EmptyDict]     \* loads None or a str
    ELSE LoadFrom(ls, 1, EmptyDict)

\* yaml.dump of a str: plain when that reads back as the same str
DumpStyle(s) == IF ScalarLoad("plain", s) = Ok(Str(s)) THEN "plain" ELSE "sq"

DumpEntry(k, v) ==
  CASE v.ty = "str" -> <<KV(k, DumpStyle(v.s), v.s)>>
    [] v.ty = "bool" -> <<KV(k, "plain", IF v.b THEN <<"true">> ELSE <<"false">>)>>
    [] v.ty = "none" -> <<KV(k, "plain", <<"null">>)>>
    [] v.ty = "list" ->
         IF v.l = <<>> THEN <<KV(k, "plain", <<"[", "]">>)>>
         ELSE <<KV(k, "plain", <<>>)>> \o
              [j \in 1..Len(v.l) |-> Item(DumpStyle(v.l[j]), v.l[j])]

\* yaml.dump(metadata, default_flow_style=False).strip()
YamlDump(md) ==
  IF DOMAIN md = {} THEN <<Txt(<<"{", "}">>)>>
  ELSE Concat([i \in 1..Len(KeyOrder) |->
         IF KeyOrder[i] \in DOMAIN md THEN DumpEntry(KeyOrder[i], md[KeyOrder[i]]) ELSE <<>>])

\* ------------------------------------------------------------------ python-frontmatter
\* index of the first marker line from position i on (0 when there is none)
RECURSIVE NextMarker(_, _)
NextMarker(ls, i) ==
  IF i > Len(ls) THEN 0
  ELSE IF ls[i] = Marker THEN i ELSE NextMarker(ls, i + 1)

\* frontmatter.loads(text): [ok, metadata, body]; ok = FALSE is a raised
\* yaml.YAMLError.  A text that does not open with a marker, or opens with
\* one that is never closed, cannot be split: the library returns empty
\* metadata and the whole stripped text as the content.
LoadsDecoded(r, content) ==
  IF ~r.ok THEN [ok |-> FALSE, metadata |-> EmptyDict, body |-> <<>>]
  ELSE [ok |-> TRUE, metadata |-> IF r.dict THEN r.md ELSE EmptyDict, body |-> Strip(content)]
LoadsSplit(t, j) ==
  IF t = <<>> \/ Head(t) # Marker \/ j = 0
    THEN [ok |-> TRUE, metadata |-> EmptyDict, body |-> t]
    ELSE LoadsDecoded(YamlLoad(SubSeq(t, 2, j - 1)), SubSeq(t, j + 1, Len(t)))
LoadsStripped(t) == LoadsSplit(t, NextMarker(t, 2))
FrontmatterLoads(text) == LoadsStripped(Strip(text))

\* frontmatter.dumps(Post(body, **metadata))
FrontmatterDumps(metadata, body) ==
  Strip(<<Marker>> \o YamlDump(metadata) \o <<Marker, Blank>> \o body)

\* ------------------------------------------------------------------ body scanning
\* the value text of a key: value or - value line, quotes included
ValueToks(line) ==
  IF line.style = "dq" THEN <<"\"">> \o line.toks \o <<"\"">>
  ELSE IF line.style = "sq" THEN <<"'">> \o line.toks \o <<"'">>
  ELSE line.toks

\* the characters of a line, as atoms
RawToks(line) ==
  CASE line.t = "marker" -> <<"---">>
    [] line.t = "blank" -> <<>>
    [] line.t = "text" -> line.toks
    [] line.t = "item" -> <<"- ">> \o ValueToks(line)
    [] line.t = "kv" -> <<line.key, ": ">> \o ValueToks(line)

BodyAtoms(body) == Concat([i \in 1..Len(body) |-> RawToks(body[i])])

\* '$ARGUMENTS' in body
HasArguments(body) == "$ARGUMENTS" \in Range(BodyAtoms(body))

\* the atoms r'\$(\d+)' matches, and the index each one captures
PosAtoms == {"$0", "$1", "$2", "$3"}
PosIndex(a) == CASE a = "$0" -> 0 [] a = "$1" -> 1 [] a = "$2" -> 2 [] a = "$3" -> 3
\* re.findall(r'\$(\d+)', body)
PositionalArgs(body) == SelectSeq(BodyAtoms(body), LAMBDA a : a \in PosAtoms)

\* max(int(n) for n in positional_args)
RECURSIVE MaxIndex(_)
MaxIndex(args) ==
  IF Len(args) = 1 THEN PosIndex(args[1])
  ELSE SeqMax(PosIndex(args[1]), MaxIndex(Tail(args)))

\* the atoms the execution-marker pattern (bang, backtick, non-empty command,
\* backtick) matches; "!<ls>" stands for a bang and the command ls between
\* backticks, "!<>" for a bang and two backticks with nothing between
ExecAtoms == {"!<ls>"}
\* re.findall(<execution-marker pattern>, body)
BashCommands(body) == SelectSeq(BodyAtoms(body), LAMBDA a : a \in ExecAtoms)

\* the atoms in which the characters 'Bash' occur
BashAtoms == {"Bash", "BashOutput", "Bash(git:*)"}
\* 'Bash' in s, for a str s
ContainsBash(s) == Range(s) \cap BashAtoms # {}

\* ------------------------------------------------------------------ fix_commands.py
FixRec(kind, key, n) == [kind |-> kind, key |-> key, n |-> n]
CouldNotParse == FixRec("could_not_parse", "", 0)
UnexpectedError == FixRec("unexpected_error", "", 0)

Quotes == {"\"", "'"}

\* '[' in value and not (value.startswith('"') or value.startswith("'"))
NeedsQuoting(value) == "[" \in Range(value) /\ Head(value) \notin Quotes

RECURSIVE NextNonBlank(_, _)
NextNonBlank(ls, i) ==
  IF i > Len(ls) THEN 0
  ELSE IF ls[i].t # "blank" THEN i ELSE NextNonBlank(ls, i + 1)

\* re.sub(r'^(\w[\w-]*?):\s*(.+?)$', quote_brackets, fm_content, MULTILINE):
\* [lines, fixes].  The \s* of the pattern runs over line breaks, so a key
\* with nothing after its colon takes the next non-blank line as its value.
Keep(lines, r) == [lines |-> lines \o r.lines, fixes |-> r.fixes]
Quote(key, value, r) ==
  [lines |-> <<KV(key, "dq", value)>> \o r.lines,
   fixes |-> <<FixRec("quoted", key, 0)>> \o r.fixes]
\* quote_brackets(match), the match running from line i to line j
QuoteMatch(ls, i, j, value, r) ==
  IF NeedsQuoting(value) THEN Quote(ls[i].key, value, r) ELSE Keep(SubSeq(ls, i, j), r)
RECURSIVE QuoteBrackets(_, _)
QuoteFrom(ls, i, j) ==
  IF j = 0 THEN Keep(<<ls[i]>>, QuoteBrackets(ls, i + 1))
  ELSE QuoteMatch(ls, i, j, IF j = i THEN ValueToks(ls[i]) ELSE RawToks(ls[j]),
                  QuoteBrackets(ls, j + 1))
QuoteBrackets(ls, i) ==
  IF i > Len(ls) THEN [lines |-> <<>>, fixes |-> <<>>]
  ELSE IF ls[i].t # "kv" THEN Keep(<<ls[i]>>, QuoteBrackets(ls, i + 1))
  ELSE QuoteFrom(ls, i, IF ValueToks(ls[i]) # <<>> THEN i ELSE NextNonBlank(ls, i + 1))

\* _fix_frontmatter_syntax(content): [content, fixes]
Reconstruct(content, j, q) ==
  [content |-> <<Marker>> \o q.lines \o <<Marker>> \o SubSeq(content, j + 1, Len(content)),
   fixes |-> q.fixes]
\* re.match(r'^---\n(.*?)\n---\n(.*)$', content, re.DOTALL), closing marker at j
SyntaxMatch(content, j) ==
  IF content = <<>> \/ Head(content) # Marker \/ j = 0 \/ j >= Len(content)
    THEN [content |-> content, fixes |-> <<>>]
    ELSE Reconstruct(content, j, QuoteBrackets(SubSeq(content, 2, j - 1), 1))
FixFrontmatterSyntax(content) == SyntaxMatch(content, NextMarker(content, 3))

\* str(v) for a decoded value
PyStr(v) ==
  CASE v.ty = "str" -> v.s
    [] v.ty = "bool" -> IF v.b THEN <<"True">> ELSE <<"False">>
    [] v.ty = "none" -> <<"None">>
    [] v.ty = "list" -> <<"[">> \o Join(", ", [i \in 1..Len(v.l) |-> <<"'">> \o v.l[i] \o <<"'">>]) \o <<"]">>

\* '[arg%d]' % i
ArgName(i) == CASE i = 1 -> "arg1" [] i = 2 -> "arg2" [] i = 3 -> "arg3" [] OTHER -> "argN"
\* ' '.join('[arg%d]' % i for i in range(1, max_arg + 1))
HintParts(max_arg) == Join(" ", [i \in 1..max_arg |-> <<"[", ArgName(i), "]">>])

GenericHint == <<"[", "args", "]">>

\* list -> ' '.join(str(x) for x in list), lines 143-151; r is [md, fixes]
CoerceField(r, k) ==
  IF k \in DOMAIN r.md /\ r.md[k].ty = "list"
    THEN [md |-> DictSet(r.md, k, Str(Join(" ", r.md[k].l))),
          fixes |-> Append(r.fixes, FixRec("coerced", k, 0))]
    ELSE r

\* mutant of SynthesizeHint: the positional branch is missing
SynthesizeHint_GenericOnly(r, has_arguments, positional_args) ==
  IF has_arguments /\ "argument-hint" \notin DOMAIN r.md
    THEN [md |-> DictSet(r.md, "argument-hint", Str(GenericHint)),
          fixes |-> Append(r.fixes, FixRec("hint_generic", "argument-hint", 0))]
    ELSE r

\* mutant of SynthesizeHint: the positional branch is tested first
SynthesizeHint_PositionalFirst(r, has_arguments, positional_args) ==
  IF (has_arguments \/ Len(positional_args) > 0) /\ "argument-hint" \notin DOMAIN r.md
    THEN IF Len(positional_args) > 0
           THEN [md |-> DictSet(r.md, "argument-hint", Str(HintParts(MaxIndex(positional_args)))),
                 fixes |-> Append(r.fixes, FixRec("hint_positional", "argument-hint",
                                                  MaxIndex(positional_args)))]
           ELSE [md |-> DictSet(r.md, "argument-hint", Str(GenericHint)),
                 fixes |-> Append(r.fixes, FixRec("hint_generic", "argument-hint", 0))]
    ELSE r

\* argument-hint synthesis, lines 158-166; r is [md, fixes]
SynthesizeHint(r, has_arguments, positional_args) ==
  IF (has_arguments \/ Len(positional_args) > 0) /\ "argument-hint" \notin DOMAIN r.md
    THEN IF has_arguments
           THEN [md |-> DictSet(r.md, "argument-hint", Str(GenericHint)),
                 fixes |-> Append(r.fixes, FixRec("hint_generic", "argument-hint", 0))]
           ELSE [md |-> DictSet(r.md, "argument-hint", Str(HintParts(MaxIndex(positional_args)))),
                 fixes |-> Append(r.fixes, FixRec("hint_positional", "argument-hint",
                                                  MaxIndex(positional_args)))]
    ELSE r

\* _fix_metadata(metadata, body): [md, fixes]; md is the new_metadata copy
FixMetadata(metadata, body) ==
  SynthesizeHint(CoerceField(CoerceField([md |-> metadata, fixes |-> <<>>], "description"),
                             "argument-hint"),
                 HasArguments(body), PositionalArgs(body))

\* lines 180-187: tools is metadata['allowed-tools']; ok = FALSE is the
\* TypeError of "'Bash' not in x" for an x that is not a container
CheckListed(tools) ==
  IF tools.ty \notin {"str", "list"} THEN [ok |-> FALSE, fixes |-> <<>>]
  ELSE IF ~ContainsBash(IF tools.ty = "list" THEN Join(", ", tools.l) ELSE tools.s)
    THEN [ok |-> TRUE, fixes |-> <<FixRec("bash_not_listed", "allowed-tools", 0)>>]
    ELSE [ok |-> TRUE, fixes |-> <<>>]

\* _check_bash_permissions(metadata, body): [ok, fixes]
CheckBashPermissions(metadata, body) ==
  IF BashCommands(body) = <<>> THEN [ok |-> TRUE, fixes |-> <<>>]
  ELSE IF "allowed-tools" \notin DOMAIN metadata
    THEN [ok |-> TRUE, fixes |-> <<FixRec("bash_no_field", "allowed-tools", 0)>>]
  ELSE CheckListed(metadata["allowed-tools"])

\* mutant of AddBashToAllowedTools: a list is flattened into a string
AddBashToAllowedTools_Flatten(metadata) ==
  IF "allowed-tools" \notin DOMAIN metadata
    THEN [md |-> DictSet(metadata, "allowed-tools", Str(<<"Bash">>)), arg |-> metadata]
  ELSE [md |-> DictSet(metadata, "allowed-tools",
                       Str((IF metadata["allowed-tools"].ty = "list"
                              THEN Join(", ", metadata["allowed-tools"].l)
                              ELSE PyStr(metadata["allowed-tools"]))
                           \o <<", ", "Bash">>)),
        arg |-> metadata]

\* _add_bash_to_allowed_tools(metadata): [md, arg].  md is the returned dict;
\* arg is the argument dict as the call leaves it: metadata.copy() is shallow,
\* so tools.append('Bash') appends to the list object the argument holds too.
AddBashToAllowedTools(metadata) ==
  IF "allowed-tools" \notin DOMAIN metadata
    THEN [md |-> DictSet(metadata, "allowed-tools", Str(<<"Bash">>)), arg |-> metadata]
  ELSE IF metadata["allowed-tools"].ty = "list"
    THEN [md |-> DictSet(metadata, "allowed-tools",
                         List(Append(metadata["allowed-tools"].l, <<"Bash">>))),
          arg |-> DictSet(metadata, "allowed-tools",
                          List(Append(metadata["allowed-tools"].l, <<"Bash">>)))]
  ELSE [md |-> DictSet(metadata, "allowed-tools",
                       Str(PyStr(metadata["allowed-tools"]) \o <<", ", "Bash">>)),
        arg |-> metadata]

\* mutant of FixOrder: the permission records are listed before the metadata ones
FixOrder_BashFirst(frontmatter_fixes, metadata_fixes, bash_fixes) ==
  frontmatter_fixes \o bash_fixes \o metadata_fixes

\* the order in which fix_file extends its list: lines 76, 89, 94
FixOrder(frontmatter_fixes, metadata_fixes, bash_fixes) ==
  frontmatter_fixes \o metadata_fixes \o bash_fixes

\* mutant of ShouldWrite: the dry_run test is missing
ShouldWrite_IgnoreDry(fixes, dry) == fixes # <<>>

\* whether fix_file rewrites the file: lines 98-104
ShouldWrite(fixes, dry) == fixes # <<>> /\ ~dry

\* What fix_file(file_path) yields on a file whose content is "content":
\*   fixes      the list the call returns
\*   write      whether the file is rewritten, and new_content with what
\*   parsed     whether a frontmatter.loads call succeeded
\*   metadata   post.metadata as decoded, input_after the same dict object when
\*              the call returns, new_metadata the working copy
FixResult(fixes, write, new_content, parsed, metadata, input_after, new_metadata, body) ==
  [fixes |-> fixes, write |-> write, new_content |-> new_content, parsed |-> parsed,
   metadata |-> metadata, input_after |-> input_after, new_metadata |-> new_metadata,
   body |-> body]

\* lines 97-104; new_metadata shares its value objects with metadata, so the
\* allowed-tools list of the decoded metadata is the one add.arg holds
FixWrite(content, dry, metadata, body, fixes, add) ==
  FixResult(fixes, ShouldWrite(fixes, dry),
            IF fixes # <<>> THEN FrontmatterDumps(add.md, body) ELSE content,
            TRUE, metadata,
            IF "allowed-tools" \in DOMAIN metadata
              THEN DictSet(metadata, "allowed-tools", add.arg["allowed-tools"]) ELSE metadata,
            add.md, body)

\* lines 89-95 and the handler at 106-107
FixApply(content, dry, metadata, body, frontmatter_fixes, fm, bash) ==
  IF ~bash.ok
    THEN FixResult(Append(frontmatter_fixes \o fm.fixes, UnexpectedError), FALSE, content,
                   TRUE, metadata, metadata, fm.md, body)
    ELSE FixWrite(content, dry, metadata, body,
                  FixOrder(frontmatter_fixes, fm.fixes, bash.fixes),
                  IF bash.fixes # <<>> THEN AddBashToAllowedTools(fm.md)
                                       ELSE [md |-> fm.md, arg |-> fm.md])

\* lines 83-92, ld the outcome of the parse attempts
FixLoaded(content, dry, ld) ==
  IF ~ld.post.ok
    THEN FixResult(Append(ld.fixes, CouldNotParse), FALSE, content, FALSE,
                   EmptyDict, EmptyDict, EmptyDict, <<>>)
    ELSE FixApply(content, dry, ld.post.metadata, ld.post.body, ld.fixes,
                  FixMetadata(ld.post.metadata, ld.post.body),
                  CheckBashPermissions(ld.post.metadata, ld.post.body))

\* lines 69-82: parse, and after a failure one syntax repair and one more parse
Reparse(repair) == [post |-> FrontmatterLoads(repair.content), fixes |-> repair.fixes]
LoadWithRepair(content, first) ==
  IF first.ok THEN [post |-> first, fixes |-> <<>>]
  ELSE Reparse(FixFrontmatterSyntax(content))

\* fix_file(file_path)
FixFile(content, dry) ==
  FixLoaded(content, dry, LoadWithRepair(content, FrontmatterLoads(content)))

\* ------------------------------------------------------------------ validate_commands.py
VALID_FRONTMATTER_FIELDS ==
  {"allowed-tools", "argument-hint", "description", "model", "disable-model-invocation"}

\* the model atoms that are members of VALID_MODELS
VALID_MODELS == {"claude-3-5-sonnet-20241022", "claude-3-5-haiku-20241022",
                 "claude-opus-4-20250514", "claude-sonnet-4-5-20250929"}

\* the atoms that match one of TOOL_PATTERNS as a whole tool name, and those
\* that start a match of the open-ended patterns SlashCommand.* and mcp__.+
ToolAtoms == {"Read", "Write", "Edit", "View", "Grep", "Glob", "Task", "TodoWrite",
              "Create", "WebFetch", "WebSearch", "Bash(git:*)", "SlashCommand", "mcp__x"}
ToolPrefixAtoms == {"SlashCommand", "mcp__x"}
MatchesToolPattern(tool) ==
  \/ Len(tool) = 1 /\ tool[1] \in ToolAtoms
  \/ Len(tool) > 1 /\ tool[1] \in ToolPrefixAtoms

\* len(a) of an atom a
AtomLen(a) ==
  CASE a = "<201 chars>" -> 201
    [] a \in {"[", "]", "{", "}", " ", "'", "\"", "x"} -> 1
    [] a \in {", ", ": ", "- ", "Hi", "$0", "$1", "$2", "$3"} -> 2
    [] a \in {"Part one.", "Part two."} -> 9
    [] a = "Run the tests" -> 13
    [] OTHER -> 4
RECURSIVE StrLen(_)
StrLen(s) == IF s = <<>> THEN 0 ELSE AtomLen(Head(s)) + StrLen(Tail(s))

\* s.strip() of a str
RECURSIVE LStripStr(_)
LStripStr(s) == IF s # <<>> /\ Head(s) = " " THEN LStripStr(Tail(s)) ELSE s
RECURSIVE RStripStr(_)
RStripStr(s) == IF s # <<>> /\ Last(s) = " " THEN RStripStr(SubSeq(s, 1, Len(s) - 1)) ELSE s
StripStr(s) == RStripStr(LStripStr(s))

\* s.split(',') with each part stripped
RECURSIVE SplitComma(_, _)
SplitComma(s, cur) ==
  IF s = <<>> THEN <<StripStr(cur)>>
  ELSE IF Head(s) \in {", ", ","} THEN <<StripStr(cur)>> \o SplitComma(Tail(s), <<>>)
  ELSE SplitComma(Tail(s), Append(cur, Head(s)))

\* bool(v) of a decoded value
Truthy(v) ==
  CASE v.ty = "str" -> v.s # <<>>
    [] v.ty = "list" -> v.l # <<>>
    [] v.ty = "bool" -> v.b
    [] v.ty = "none" -> FALSE

\* a ValidationResult; raised: an exception is on its way to the handler of
\* validate_file
NewResult == [is_valid |-> TRUE, errors |-> <<>>, warnings |-> <<>>, info |-> <<>>,
              raised |-> FALSE]
\* mutant of AddError: the message is appended, is_valid is left as it was
AddError_KeepValid(res, m) == [res EXCEPT !.errors = Append(@, m)]

\* result.errors.append(m); result.is_valid = False
AddError(res, m) == [res EXCEPT !.errors = Append(@, m), !.is_valid = FALSE]
AddWarning(res, m) == [res EXCEPT !.warnings = Append(@, m)]
AddInfo(res, m) == [res EXCEPT !.info = Append(@, m)]
Raise(res) == [res EXCEPT !.raised = TRUE]

\* _validate_allowed_tools(tools_value, result)
CheckTool(tool, res) ==
  IF tool = <<>> \/ MatchesToolPattern(tool) THEN res
  ELSE AddWarning(res, "Tool may not be a valid tool name")
RECURSIVE CheckTools(_, _)
CheckTools(tools, res) ==
  IF tools = <<>> THEN res
  ELSE CheckTools(Tail(tools), CheckTool(StripStr(Head(tools)), res))
ValidateAllowedTools(tools_value, res) ==
  CASE tools_value.ty = "str" -> CheckTools(SplitComma(tools_value.s, <<>>), res)
    [] tools_value.ty = "list" -> CheckTools(tools_value.l, res)
    [] OTHER -> AddError(res, "'allowed-tools' must be a string or list")

\* lines 144-147
ValidateUnknown(metadata, res) ==
  IF DOMAIN metadata \ VALID_FRONTMATTER_FIELDS # {}
    THEN AddWarning(res, "Unknown frontmatter fields") ELSE res

\* len(desc) > 200, line 162
MaxDescription == 200
\* the description check, lines 150-163; desc is the stripped text
CheckDescription(desc, res) ==
  IF desc = <<>> THEN AddError(res, "'description' field is empty")
  ELSE IF StrLen(desc) > MaxDescription THEN AddWarning(res, "'description' is very long")
  ELSE res
\* ' '.join(str(x) for x in v) for a list, str(v) otherwise
JoinedText(v) == IF v.ty = "list" THEN Join(" ", v.l) ELSE PyStr(v)
ValidateDescription(metadata, res) ==
  IF "description" \notin DOMAIN metadata
    THEN AddWarning(res, "Missing 'description' field")
    ELSE CheckDescription(StripStr(JoinedText(metadata["description"])), res)

\* lines 166-167
ValidateTools(metadata, res) ==
  IF "allowed-tools" \in DOMAIN metadata
    THEN ValidateAllowedTools(metadata["allowed-tools"], res) ELSE res

\* the model check, lines 170-173; a list is unhashable: the set lookup raises
ValidateModel(metadata, res) ==
  IF "model" \notin DOMAIN metadata THEN res
  ELSE IF metadata["model"].ty = "list" THEN Raise(res)
  ELSE IF /\ metadata["model"].ty = "str"
          /\ Len(metadata["model"].s) = 1
          /\ metadata["model"].s[1] \in VALID_MODELS THEN res
  ELSE AddWarning(res, "Model may not be valid")

\* the argument-hint check, lines 176-183
HintText(h) ==
  IF h.ty = "list" THEN StripStr(Join(" ", h.l))
  ELSE IF Truthy(h) THEN StripStr(PyStr(h)) ELSE <<>>
ValidateHint(metadata, res) ==
  IF "argument-hint" \in DOMAIN metadata /\ HintText(metadata["argument-hint"]) = <<>>
    THEN AddWarning(res, "'argument-hint' is empty") ELSE res

\* the disable-model-invocation check, lines 186-190
ValidateDisable(metadata, res) ==
  IF "disable-model-invocation" \in DOMAIN metadata
     /\ metadata["disable-model-invocation"].ty # "bool"
    THEN AddError(res, "'disable-model-invocation' must be a boolean")
    ELSE res

\* lines 175-190, skipped when the model check raised
ValidateHintAndDisable(metadata, res) ==
  IF res.raised THEN res ELSE ValidateDisable(metadata, ValidateHint(metadata, res))

\* _validate_frontmatter(metadata, result)
ValidateFrontmatter(metadata, res) ==
  IF DOMAIN metadata = {}
    THEN AddWarning(res, "No frontmatter found")
    ELSE ValidateHintAndDisable(metadata,
           ValidateModel(metadata,
             ValidateTools(metadata,
               ValidateDescription(metadata,
                 ValidateUnknown(metadata, res)))))

\* the atoms the file-reference pattern (@ and a path) matches, and the
\* thinking-mode keywords
FileRefAtoms == {"@src/a.py"}
ThinkingAtoms == {"<ultrathink>", "<megaexpertise>", "<think>", "<thinking>"}

\* _get_frontmatter_from_file(file_path): a second read and parse of the file
MetadataOrNone(post) ==
  IF post.ok THEN [some |-> TRUE, metadata |-> post.metadata]
  ELSE [some |-> FALSE, metadata |-> EmptyDict]
GetFrontmatterFromFile(content) == MetadataOrNone(FrontmatterLoads(content))

\* lines 231-236
CheckBashAllowed(metadata_check, res) ==
  IF /\ metadata_check.some
     /\ DOMAIN metadata_check.metadata # {}
     /\ "allowed-tools" \in DOMAIN metadata_check.metadata
     /\ ~ContainsBash(PyStr(metadata_check.metadata["allowed-tools"]))
    THEN AddError(res, "Bash commands found but 'Bash' not in allowed-tools")
    ELSE res
\* lines 226-236
ContentBash(body, content, res) ==
  IF BashCommands(body) = <<>> THEN res
  ELSE CheckBashAllowed(GetFrontmatterFromFile(content),
                        AddInfo(res, "Found bash command execution(s)"))
\* lines 239-241
ContentFileRefs(atoms, res) ==
  IF atoms \cap FileRefAtoms # {} THEN AddInfo(res, "Found file reference(s)") ELSE res
\* lines 244-246
ContentThinking(atoms, res) ==
  IF atoms \cap ThinkingAtoms # {} THEN AddInfo(res, "Extended thinking mode detected") ELSE res

\* _validate_content(body, file_path, result); atoms are those of the body
ContentChecks(atoms, body, content, res) ==
  IF atoms \subseteq {" "}
    THEN AddError(res, "File has no content after frontmatter")
    ELSE ContentThinking(atoms, ContentFileRefs(atoms, ContentBash(body, content, res)))
ValidateContent(body, content, res) ==
  IF res.raised THEN res ELSE ContentChecks(Range(BodyAtoms(body)), body, content, res)

\* lines 258-267
ArgumentChecks(metadata, has_arguments, has_positional, res) ==
  LET mixed == IF has_arguments /\ has_positional
                 THEN <<"Mixed usage of $ARGUMENTS and positional args">> ELSE <<>>
      nohint == IF (has_arguments \/ has_positional) /\ "argument-hint" \notin DOMAIN metadata
                  THEN <<"Arguments detected but no 'argument-hint' in frontmatter">> ELSE <<>>
      dangling == IF "argument-hint" \in DOMAIN metadata /\ ~has_arguments /\ ~has_positional
                    THEN <<"'argument-hint' specified but no $ARGUMENTS or $N found in content">>
                    ELSE <<>>
  IN [res EXCEPT !.warnings = @ \o mixed \o nohint \o dangling]
\* _validate_arguments(metadata, body, result)
ValidateArguments(metadata, body, res) ==
  IF res.raised THEN res
  ELSE ArgumentChecks(metadata, HasArguments(body), Len(PositionalArgs(body)) > 0, res)

\* mutant of Handler: the exception is not caught
Handler_Propagate(res) == res

\* lines 132-134
Handler(res) ==
  IF res.raised THEN AddError([res EXCEPT !.raised = FALSE], "Unexpected error") ELSE res

\* lines 113-130, post the outcome of frontmatter.loads
ValidateParsed(post, content) ==
  IF ~post.ok THEN AddError(NewResult, "Failed to parse frontmatter")
  ELSE Handler(ValidateArguments(post.metadata, post.body,
                 ValidateContent(post.body, content,
                   ValidateFrontmatter(post.metadata, NewResult))))

\* validate_file(file_path) on a file whose content is "content"
ValidateFile(content) == ValidateParsed(FrontmatterLoads(content), content)

\* ------------------------------------------------------------------ scripts/validate_slash_commands.py
\* a file of the commands directory: its name (stem) and its content
File(name, content) == [name |-> name, content |-> content]
\* file_path.name.lower() == 'readme.md'
IsReadme(f) == f.name = "README"

\* a ValidationResult of the repository validator; file_path is the position
\* of the file in the directory listing, 0 the commands directory itself
\* (status one of "PASS", "FAIL", "WARNING", "INFO")
Result(status, message, file_path) ==
  [status |-> status, message |-> message, file_path |-> file_path]

\* self.results while a file is processed; raised: an exception is on its way
\* to the handler of validate_command_file
Acc(results) == [results |-> results, raised |-> FALSE]
add_result(acc, status, message, file_path) ==
  [acc EXCEPT !.results = Append(@, Result(status, message, file_path))]
RaiseIn(acc) == [acc EXCEPT !.raised = TRUE]

\* s[1:] of an atom longer than one character
AtomTail(a) ==
  CASE a = "!<ls>" -> "<ls>"
    [] a = "!<>" -> "<>"
    [] a = "$ARGUMENTS" -> "ARGUMENTS"
    [] a = "@src/a.py" -> "src/a.py"
    [] a \in PosAtoms -> "digit"
    [] OTHER -> "rest"
\* text[1:]: the text without its first character, which is the line break
\* after an empty first line, else the first character of the first line
DropFirstChar(ls) ==
  IF ls = <<>> THEN ls
  ELSE IF RawToks(Head(ls)) = <<>> THEN (IF Len(ls) = 1 THEN ls ELSE Tail(ls))
  ELSE IF AtomLen(Head(RawToks(Head(ls)))) > 1
    THEN <<Txt(<<AtomTail(Head(RawToks(Head(ls))))>> \o Tail(RawToks(Head(ls))))>> \o Tail(ls)
  ELSE IF Len(RawToks(Head(ls))) = 1 THEN <<Blank>> \o Tail(ls)
  ELSE <<Txt(Tail(RawToks(Head(ls))))>> \o Tail(ls)

\* what yaml.safe_load(frontmatter_text) leaves in command.frontmatter:
\* a mapping, None, an empty mapping, or a value of another type
\* (ls the lines of frontmatter_text that are not blank, r what they load as)
Frontmatter(r, ls) ==
  IF r.dict THEN [kind |-> "dict", md |-> r.md]
  ELSE IF ls = <<>> THEN [kind |-> "none", md |-> EmptyDict]
  ELSE IF ls = <<Txt(<<"{", "}">>)>> THEN [kind |-> "empty", md |-> EmptyDict]
  ELSE [kind |-> "other", md |-> EmptyDict]

CommandFile(path, name, frontmatter, body) ==
  [path |-> path, name |-> name, frontmatter |-> frontmatter, body |-> body]

\* lines 174-188, the closing marker found at line j: [command, acc].
\* body = content[end_match.end() + 4:] starts one character after the line
\* break that ends the closing marker
LoadMatched(path, f, j, ls, r, acc) ==
  IF ~r.ok
    THEN [command |-> CommandFile(path, f.name, Frontmatter(LoadFailed, <<>>), <<>>),
          acc |-> add_result(acc, "FAIL", "Invalid YAML frontmatter", path)]
    ELSE [command |-> CommandFile(path, f.name,
                                  Frontmatter(r, SelectSeq(ls, LAMBDA l : l.t # "blank")),
                                  DropFirstChar(SubSeq(f.content, j + 1, Len(f.content)))),
          acc |-> acc]
\* re.search(r'\n---\n', content[3:]): the first marker line after the first
\* line that a line break follows
LoadSplit(path, f, j, acc) ==
  IF f.content = <<>> \/ Head(f.content) # Marker \/ j = 0 \/ j >= Len(f.content)
    THEN [command |-> CommandFile(path, f.name, Frontmatter(LoadFailed, <<>>), f.content),
          acc |-> acc]
    ELSE LoadMatched(path, f, j, SubSeq(f.content, 2, j - 1),
                     YamlLoad(SubSeq(f.content, 2, j - 1)), acc)
load_command_file(path, f, acc) == LoadSplit(path, f, NextMarker(f.content, 2), acc)

\* validate_file_name(command); of the file names "cmd" is the one that
\* matches ^[a-z0-9-]+$
validate_file_name(command, acc) ==
  IF command.name # "cmd"
    THEN add_result(acc, "WARNING", "Command name should use lowercase letters", command.path)
    ELSE acc

\* is_valid_tool_spec(tool_spec): one of the listed names, or Bash( ... )
is_valid_tool_spec(tool_spec) ==
  /\ Len(tool_spec) = 1
  /\ tool_spec[1] \in {"Edit", "View", "Create", "Search", "Grep", "Glob", "Read", "MultiEdit",
                        "Bash(git:*)"}
RECURSIVE CheckToolSpecs(_, _, _)
CheckToolSpecs(tool_list, path, acc) ==
  IF tool_list = <<>> THEN acc
  ELSE CheckToolSpecs(Tail(tool_list), path,
         IF is_valid_tool_spec(Head(tool_list)) THEN acc
         ELSE add_result(acc, "WARNING", "Potentially invalid tool specification", path))
validate_allowed_tools(command, atoms, acc) ==
  IF "allowed-tools" \notin DOMAIN command.frontmatter.md
    \* the atoms in which bang-backtick, or @, occur
    THEN IF atoms \cap {"!<ls>", "!<>", "@src/a.py"} # {}
           THEN add_result(acc, "WARNING", "No 'allowed-tools' specified", command.path)
           ELSE acc
  ELSE IF command.frontmatter.md["allowed-tools"].ty # "str"
    THEN add_result(acc, "FAIL", "'allowed-tools' must be a string", command.path)
  ELSE CheckToolSpecs(SplitComma(command.frontmatter.md["allowed-tools"].s, <<>>),
                      command.path, acc)

\* len(description) < 10, line 297
MinDescription == 10
validate_description(command, acc) ==
  IF "description" \notin DOMAIN command.frontmatter.md
    THEN add_result(acc, "WARNING", "No 'description' in frontmatter", command.path)
  ELSE IF command.frontmatter.md["description"].ty # "str"
    THEN add_result(acc, "FAIL", "'description' must be a string", command.path)
  ELSE [acc EXCEPT !.results =
          @ \o (IF StrLen(command.frontmatter.md["description"].s) < MinDescription
                  THEN <<Result("WARNING", "Description is very short", command.path)>>
                  ELSE <<>>)
            \o (IF StrLen(command.frontmatter.md["description"].s) > MaxDescription
                  THEN <<Result("WARNING", "Description is very long", command.path)>>
                  ELSE <<>>)]

\* the model atoms that are members of the repository validator's VALID_MODELS
KnownModels == {"claude-3-5-sonnet-20241022", "claude-3-5-haiku-20241022",
                "claude-3-opus-20240229", "claude-3-sonnet-20240229",
                "claude-3-haiku-20240307"}
validate_model(command, acc) ==
  IF "model" \notin DOMAIN command.frontmatter.md THEN acc
  ELSE IF command.frontmatter.md["model"].ty # "str"
    THEN add_result(acc, "FAIL", "'model' must be a string", command.path)
  ELSE IF ~(Len(command.frontmatter.md["model"].s) = 1
            /\ command.frontmatter.md["model"].s[1] \in KnownModels)
    THEN add_result(acc, "WARNING", "Unknown model", command.path)
  ELSE acc

validate_argument_hint(command, atoms, acc) ==
  IF "argument-hint" \notin DOMAIN command.frontmatter.md
    THEN IF atoms \cap {"$ARGUMENTS", "$1"} # {}
           THEN add_result(acc, "INFO", "Command uses arguments", command.path)
           ELSE acc
  ELSE IF command.frontmatter.md["argument-hint"].ty # "str"
    THEN add_result(acc, "FAIL", "'argument-hint' must be a string", command.path)
  ELSE acc

\* validate_frontmatter(command); a frontmatter that is no mapping has no
\* keys(): AttributeError
validate_frontmatter(command, atoms, acc) ==
  IF command.frontmatter.kind \in {"none", "empty"}
    THEN add_result(acc, "WARNING", "No frontmatter found", command.path)
  ELSE IF command.frontmatter.kind = "other" THEN RaiseIn(acc)
  ELSE validate_argument_hint(command, atoms,
         validate_model(command,
           validate_description(command,
             validate_allowed_tools(command, atoms,
               IF DOMAIN command.frontmatter.md \ VALID_FRONTMATTER_FIELDS # {}
                 THEN add_result(acc, "WARNING", "Unknown frontmatter fields", command.path)
                 ELSE acc))))

\* 'Bash' not in tools: a substring test on a str, a membership test on a
\* list, TypeError on a value that is no container
BashNotIn(tools, path, acc) ==
  IF tools.ty \notin {"str", "list"} THEN RaiseIn(acc)
  ELSE IF (tools.ty = "str" /\ ~ContainsBash(tools.s))
          \/ (tools.ty = "list" /\ <<"Bash">> \notin Range(tools.l))
    THEN add_result(acc, "FAIL", "'Bash' not in allowed-tools", path)
  ELSE acc
\* check_bash_commands(command); "in" on a frontmatter of None: TypeError
check_bash_commands(command, acc) ==
  IF BashCommands(command.body) = <<>> THEN acc
  ELSE IF command.frontmatter.kind = "none" THEN RaiseIn(acc)
  ELSE IF "allowed-tools" \notin DOMAIN command.frontmatter.md THEN acc
  ELSE BashNotIn(command.frontmatter.md["allowed-tools"], command.path, acc)

check_file_references(command, atoms, verbose, acc) ==
  IF acc.raised THEN acc
  ELSE IF atoms \cap FileRefAtoms # {} /\ verbose
    THEN add_result(acc, "INFO", "Command references file(s)", command.path)
    ELSE acc

check_argument_usage(command, atoms, acc) ==
  IF acc.raised THEN acc
  ELSE IF "$ARGUMENTS" \in atoms /\ atoms \cap {"$1", "$2", "$3"} # {}
    THEN add_result(acc, "WARNING", "Both $ARGUMENTS and positional arguments", command.path)
    ELSE acc

\* validate_content(command); the checks after a raised exception are skipped
validate_content(command, atoms, verbose, acc) ==
  IF acc.raised THEN acc
  ELSE IF atoms \subseteq {" "}
    THEN add_result(acc, "FAIL", "Command has no content body", command.path)
  ELSE check_argument_usage(command, atoms,
         check_file_references(command, atoms, verbose,
           check_bash_commands(command, acc)))

\* mutant of Verdict: the Pass verdict is issued whatever was recorded
Verdict_Always(path, acc) ==
  IF acc.raised THEN add_result(Acc(acc.results), "FAIL", "Error processing file", path)
  ELSE add_result(acc, "PASS", "Command is valid", path)

\* mutant of Verdict: Info results do not stand in the way of the Pass verdict
Verdict_IgnoreInfo(path, acc) ==
  IF acc.raised THEN add_result(Acc(acc.results), "FAIL", "Error processing file", path)
  ELSE IF ~\E k \in 1..Len(acc.results) :
             acc.results[k].file_path = path /\ acc.results[k].status # "INFO"
    THEN add_result(acc, "PASS", "Command is valid", path)
  ELSE acc

\* lines 146-159: the Pass verdict, and the handler
Verdict(path, acc) ==
  IF acc.raised THEN add_result(Acc(acc.results), "FAIL", "Error processing file", path)
  ELSE IF ~\E k \in 1..Len(acc.results) : acc.results[k].file_path = path
    THEN add_result(acc, "PASS", "Command is valid", path)
  ELSE acc
\* lines 137-159, ld the command and the results load_command_file leaves
Loaded(verbose, ld) ==
  Verdict(ld.command.path,
          validate_content(ld.command, Range(BodyAtoms(ld.command.body)), verbose,
            validate_frontmatter(ld.command, Range(BodyAtoms(ld.command.body)),
              validate_file_name(ld.command, ld.acc))))
\* validate_command_file(file_path): self.results afterwards
validate_command_file(path, f, verbose, results) ==
  Loaded(verbose, load_command_file(path, f, Acc(results))).results

\* the loop of validate_all, lines 118-123
RECURSIVE ValidateCommandsFrom(_, _, _, _)
ValidateCommandsFrom(dir, i, verbose, results) ==
  IF i > Len(dir) THEN results
  ELSE ValidateCommandsFrom(dir, i + 1, verbose,
         IF IsReadme(dir[i]) THEN results
         ELSE validate_command_file(i, dir[i], verbose, results))
\* lines 125-130: the counts of the results
Counted(results) ==
  [results |-> results,
   passed |-> Cardinality({ k \in 1..Len(results) : results[k].status = "PASS" }),
   warnings |-> Cardinality({ k \in 1..Len(results) : results[k].status = "WARNING" }),
   failed |-> Cardinality({ k \in 1..Len(results) : results[k].status = "FAIL" })]
\* validate_all(): self.results and the counts returned
validate_all(dir, verbose) ==
  IF dir = <<>>
    THEN [results |-> <<Result("WARNING", "No command files found", 0)>>,
          passed |-> 0, warnings |-> 1, failed |-> 0]
    ELSE Counted(ValidateCommandsFrom(dir, 1, verbose, <<>>))

\* ------------------------------------------------------------------ runs over a directory
\* validate_commands.py, validate_all: the loop at lines 99-101 over the files
\* that are no README; completed = FALSE: an exception left validate_file
RECURSIVE ValidateFrom(_, _, _)
ValidateNext(dir, i, acc, r) ==
  IF r.raised THEN [results |-> acc, completed |-> FALSE]
  ELSE ValidateFrom(dir, i + 1, Append(acc, [file_path |-> i, result |-> r]))
ValidateFrom(dir, i, acc) ==
  IF i > Len(dir) THEN [results |-> acc, completed |-> TRUE]
  ELSE IF IsReadme(dir[i]) THEN ValidateFrom(dir, i + 1, acc)
  ELSE ValidateNext(dir, i, acc, ValidateFile(dir[i].content))
ValidateAll(dir) == ValidateFrom(dir, 1, <<>>)

\* print_results(): the three groups it prints and the status it returns
InvalidFiles(results) == { k \in 1..Len(results) : ~results[k].result.is_valid }
FilesWithWarnings(results) ==
  { k \in 1..Len(results) : results[k].result.is_valid /\ results[k].result.warnings # <<>> }
FullyValidFiles(results) ==
  { k \in 1..Len(results) : results[k].result.is_valid /\ results[k].result.warnings = <<>> }
\* mutant of PrintResults: a file with warnings fails the run too
PrintResults_CountWarnings(results) ==
  IF Cardinality(InvalidFiles(results) \cup FilesWithWarnings(results)) = 0 THEN 0 ELSE 1

PrintResults(results) == IF Cardinality(InvalidFiles(results)) = 0 THEN 0 ELSE 1

\* fix_commands.py, fix_all: the loop at lines 51-54; [fixes_applied, files]
RECURSIVE FixFrom(_, _, _, _)
FixNext(dir, i, dry, acc, r) ==
  FixFrom(dir, i + 1, dry,
          [fixes_applied |-> IF r.fixes # <<>>
                               THEN Append(acc.fixes_applied, [file_path |-> i, fixes |-> r.fixes])
                               ELSE acc.fixes_applied,
           files |-> Append(acc.files,
                            File(dir[i].name, IF r.write THEN r.new_content ELSE dir[i].content))])
FixFrom(dir, i, dry, acc) ==
  IF i > Len(dir) THEN acc
  ELSE IF IsReadme(dir[i])
    THEN FixFrom(dir, i + 1, dry, [acc EXCEPT !.files = Append(@, dir[i])])
  ELSE FixNext(dir, i, dry, acc, FixFile(dir[i].content, dry))
FixAll(dir, dry) == FixFrom(dir, 1, dry, [fixes_applied |-> <<>>, files |-> <<>>])

\* ------------------------------------------------------------------ documents
\* metadata entries an input document is built from: one or two lines each
Entries == <<
  <<KV("description", "plain", <<"Hi">>)>>,
  <<KV("description", "plain", <<"[", "Part one.", ", ", "Part two.", "]">>)>>,
  <<KV("version", "plain", <<>>)>>,
  <<KV("argument-hint", "plain", <<"[", "file", "]", " ", "[", "opts", "]">>)>>,
  <<KV("argument-hint", "dq", <<"[", "file", "]">>)>>,
  <<KV("argument-hint", "plain", <<"[", "file", "]">>)>>,
  <<KV("allowed-tools", "plain", <<"Edit">>)>>,
  <<KV("allowed-tools", "plain", <<"Bash(git:*)">>)>>,
  <<KV("allowed-tools", "plain", <<"[", "Edit", ", ", "Read", "]">>)>>,
  <<KV("allowed-tools", "plain", <<>>), Item("plain", <<"Edit">>)>>,
  <<KV("allowed-tools", "plain", <<"true">>)>>,
  <<KV("model", "plain", <<"{", "x">>)>>,
  <<KV("allowed-tools", "plain", <<"BashOutput">>)>>,
  <<KV("model", "plain", <<"[", "opus", ", ", "sonnet", "]">>)>>,
  <<KV("model", "plain", <<"opus">>)>>,
  <<KV("description", "dq", <<>>)>>,
  <<KV("description", "plain", <<"<201 chars>">>)>>,
  <<KV("description", "plain", <<"Run the tests">>)>> >>

Bodies == {
  <<>>,
  <<Txt(<<"txt">>)>>,
  <<Txt(<<"Use", " ", "$ARGUMENTS">>)>>,
  <<Txt(<<"$1", " ", "$3">>)>>,
  <<Txt(<<"$0">>)>>,
  <<Txt(<<"$ARGUMENTS", " ", "$2">>)>>,
  <<Txt(<<"!<ls>">>)>>,
  <<Txt(<<"$1", " ", "!<ls>">>)>>,
  <<Txt(<<"!<>">>)>> }

\* the entries picked by a set of indices, in file order
RECURSIVE Pick(_, _)
Pick(idx, i) ==
  IF i > Len(Entries) THEN <<>>
  ELSE (IF i \in idx THEN Entries[i] ELSE <<>>) \o Pick(idx, i + 1)

\* metadata blocks: up to MaxFmLines entries, keys distinct
FmBlocks ==
  { Pick(idx, 1) : idx \in { x \in SUBSET (1..Len(Entries)) :
       /\ Cardinality(x) <= MaxFmLines
       /\ \A a, b \in x : a # b => Entries[a][1].key # Entries[b][1].key } }

\* input documents: no metadata block, a closed block, a block never closed;
\* closed ones with and without a final line break
Docs ==
  (Bodies \ {<<>>})
  \cup { <<Marker>> \o fm \o <<Marker>> \o b : fm \in FmBlocks, b \in Bodies }
  \cup { <<Marker>> \o fm \o <<Marker>> \o b \o <<Blank>> : fm \in FmBlocks, b \in Bodies }
  \cup { <<Marker>> \o fm \o b : fm \in FmBlocks, b \in Bodies }

\* ------------------------------------------------------------------ directories
MaxFiles == 2           \* files of a commands directory

\* documents of the directories that hold more than one file
SampleDocs == {
  <<Marker, KV("description", "plain", <<"Run the tests">>), Marker, Txt(<<"txt">>)>>,
  <<Marker, KV("model", "plain", <<"{", "x">>), Marker, Txt(<<"txt">>)>>,
  <<Marker, KV("model", "plain", <<"[", "opus", ", ", "sonnet", "]">>), Marker, Txt(<<"txt">>)>>,
  <<Marker, KV("allowed-tools", "plain", <<"true">>), Marker, Txt(<<"!<ls>">>)>>,
  <<Txt(<<"Use", " ", "$ARGUMENTS">>)>>,
  <<Txt(<<"!<ls>">>)>> }
Readme == File("README", <<Txt(<<"txt">>)>>)
SampleFiles == { File(n, d) : n \in {"cmd", "My_Cmd"}, d \in SampleDocs } \cup {Readme}

\* the directories a run starts from: empty, one file holding any document,
\* up to MaxFiles sample files
Dirs ==
  {<<>>, <<Readme>>}
  \cup { <<File(n, d)>> : n \in {"cmd", "My_Cmd"}, d \in Docs }
  \cup UNION { [1..k -> SampleFiles] : k \in 2..MaxFiles }

\* ------------------------------------------------------------------ state
VARIABLES
  stored,        \* the content of the command file
  log,           \* the passes made over the file so far, oldest first
  fixes_applied, \* SlashCommandFixer.fixes_applied of the last fixer run
  results,       \* SlashCommandValidator.results of the last validator run
  directory,     \* the files of the commands directory, in listing order
  run,           \* the last run of a tool over the directory
  writing,       \* where a fix_file call that rewrites the file stands
  observed       \* what another process last read from the file

vars == <<stored, log, fixes_applied, results, directory, run, writing, observed>>

\* no tool has run over the directory yet
NoRun == [tool |-> "none", flag |-> FALSE, before |-> <<>>, results |-> <<>>,
          completed |-> TRUE, exit |-> 0]

\* no fix_file call is under way on a file holding "content"
NotWriting(content) ==
  [pc |-> "idle", dry |-> FALSE, original |-> content, new_content |-> content,
   fixes |-> <<>>]
\* nothing has been read yet
NoRead == [taken |-> FALSE, pc |-> "idle", text |-> <<>>]

Init ==
  /\ stored \in Docs
  /\ log = <<>>
  /\ fixes_applied = <<>>
  /\ results = <<>>
  /\ directory = <<>>
  /\ run = NoRun
  /\ writing = NotWriting(<<>>)
  /\ observed = NoRead

LogEntry(op, dry, before, after, r, result) ==
  [op |-> op, dry |-> dry, before |-> before, after |-> after, fixes |-> r.fixes,
   parsed |-> r.parsed, metadata |-> r.metadata, input_after |-> r.input_after,
   new_metadata |-> r.new_metadata, body |-> r.body, result |-> result]

\* what a run of the fixer leaves behind, r the outcome of fix_file
Fixed(dry, r) ==
  /\ stored' = IF r.write THEN r.new_content ELSE stored
  /\ fixes_applied' = IF r.fixes # <<>> THEN <<r.fixes>> ELSE <<>>
  /\ log' = Append(log, LogEntry("fix", dry, stored, stored', r, NewResult))
  /\ UNCHANGED <<results, directory, run, writing, observed>>

\* one run of the fixer over the file: fix_all's loop body, lines 51-54
FixPass(dry) ==
  /\ Len(log) < MaxPasses
  /\ Fixed(dry, FixFile(stored, dry))

\* what a run of the validator leaves behind, r the outcome of validate_file
Validated(r) ==
  /\ results' = <<r>>
  /\ log' = Append(log, LogEntry("validate", FALSE, stored, stored,
                                 FixResult(<<>>, FALSE, stored, FALSE, EmptyDict,
                                           EmptyDict, EmptyDict, <<>>), r))
  /\ UNCHANGED <<stored, fixes_applied, directory, run, writing, observed>>

\* one run of the validator over the file: validate_all's loop body, lines 99-101
ValidatePass ==
  /\ Len(log) < MaxPasses
  /\ Validated(ValidateFile(stored))

Next ==
  \/ \E dry \in BOOLEAN : FixPass(dry)
  \/ ValidatePass

Spec == Init /\ [][Next]_vars

\* ------------------------------------------------------------------ runs of the tools over a directory
DirInit ==
  /\ directory \in Dirs
  /\ run = NoRun
  /\ stored = <<>>
  /\ log = <<>>
  /\ fixes_applied = <<>>
  /\ results = <<>>
  /\ writing = NotWriting(<<>>)
  /\ observed = NoRead

Ran(tool, flag, outcome, completed, exit) ==
  [tool |-> tool, flag |-> flag, before |-> directory, results |-> outcome,
   completed |-> completed, exit |-> exit]

\* python validate_commands.py: main(), all the outcome of validate_all; an
\* exception that leaves validate_all ends the process with status 1
Validating(all) ==
  /\ run' = Ran("validate", FALSE, all.results, all.completed,
                IF all.completed THEN PrintResults(all.results) ELSE 1)
  /\ UNCHANGED <<directory, stored, log, fixes_applied, results, writing, observed>>
ValidateRun == Validating(ValidateAll(directory))

\* python fix_commands.py [--dry-run]: main(), all the outcome of fix_all
Fixing(dry, all) ==
  /\ directory' = all.files
  /\ run' = Ran("fix", dry, all.fixes_applied, TRUE, 0)
  /\ UNCHANGED <<stored, log, fixes_applied, results, writing, observed>>
FixRun(dry) == Fixing(dry, FixAll(directory, dry))

\* python validate_slash_commands.py [--verbose]: main(), counts the outcome
\* of validate_all; the exit status is that of lines 489-495
ScriptValidating(verbose, counts) ==
  /\ run' = Ran("script", verbose, counts.results, TRUE,
                IF counts.failed > 0 THEN 1 ELSE 0)
  /\ UNCHANGED <<directory, stored, log, fixes_applied, results, writing, observed>>
ScriptRun(verbose) == ScriptValidating(verbose, validate_all(directory, verbose))

DirNext ==
  \/ ValidateRun
  \/ \E dry \in BOOLEAN : FixRun(dry)
  \/ \E verbose \in BOOLEAN : ScriptRun(verbose)

DirSpec == DirInit /\ [][DirNext]_vars

\* ------------------------------------------------------------------ the rewrite of a file, step by step
\* One fix_file call on the file while another process reads the same file.
\* The file is the unit the two share: the reader sees what the file holds at
\* the time of its read.
RewriteInit ==
  /\ stored \in Docs
  /\ writing = NotWriting(stored)
  /\ observed = NoRead
  /\ log = <<>>
  /\ fixes_applied = <<>>
  /\ results = <<>>
  /\ directory = <<>>
  /\ run = NoRun

\* lines 62-100: the file is read and new_content computed; r the outcome
Computed(dry, r) ==
  /\ writing' = [pc |-> IF r.write THEN "open" ELSE "done", dry |-> dry,
                 original |-> stored, new_content |-> r.new_content, fixes |-> r.fixes]
  /\ UNCHANGED <<stored, observed, log, fixes_applied, results, directory, run>>
Compute(dry) ==
  /\ writing.pc = "idle"
  /\ Computed(dry, FixFile(stored, dry))

\* line 103: open(file_path, 'w') truncates the file to length zero
OpenForWriting ==
  /\ writing.pc = "open"
  /\ stored' = <<>>
  /\ writing' = [writing EXCEPT !.pc = "write"]
  /\ UNCHANGED <<observed, log, fixes_applied, results, directory, run>>

\* line 104: f.write(new_content) and the flush when the with block closes the
\* file; the text reaches the file in one or more pieces, n lines of it so far
WritePiece(n) ==
  /\ writing.pc = "write"
  /\ n > Len(stored) /\ n <= Len(writing.new_content)
  /\ stored' = SubSeq(writing.new_content, 1, n)
  /\ writing' = [writing EXCEPT !.pc = IF n = Len(writing.new_content) THEN "done"
                                                                       ELSE "write"]
  /\ UNCHANGED <<observed, log, fixes_applied, results, directory, run>>
Write == \E n \in 1..Len(writing.new_content) : WritePiece(n)

\* lines 104-107: the write raises (an OSError such as a full disk) before the
\* whole text is in the file; the handler records the failure as a fix
WriteFails ==
  /\ writing.pc = "write"
  /\ writing' = [writing EXCEPT !.pc = "done",
                                !.fixes = Append(writing.fixes, UnexpectedError)]
  /\ UNCHANGED <<stored, observed, log, fixes_applied, results, directory, run>>

\* another process reads the file: open(file_path, 'r').read()
ReadFile ==
  /\ observed' = [taken |-> TRUE, pc |-> writing.pc, text |-> stored]
  /\ UNCHANGED <<stored, writing, log, fixes_applied, results, directory, run>>

RewriteNext ==
  \/ \E dry \in BOOLEAN : Compute(dry)
  \/ OpenForWriting
  \/ Write
  \/ WriteFails
  \/ ReadFile

RewriteSpec == RewriteInit /\ [][RewriteNext]_vars

\* ------------------------------------------------------------------ properties
FixPasses == { i \in 1..Len(log) : log[i].op = "fix" }
ValidatePasses == { i \in 1..Len(log) : log[i].op = "validate" }
HasKind(fixes, kinds) == \E k \in 1..Len(fixes) : fixes[k].kind \in kinds
HintKinds == {"hint_generic", "hint_positional"}
BashKinds == {"bash_no_field", "bash_not_listed"}

\* the text opens with a marker line and has no second marker line
Unclosed(text) == text # <<>> /\ Head(text) = Marker /\ NextMarker(text, 2) = 0

\* C1: a non-dry-run fix pass that directly follows a non-dry-run fix pass
\* returns an empty fix list and leaves the stored text as the first left it.
C1_Idempotent ==
  \A i \in FixPasses :
    (i + 1 \in FixPasses /\ ~log[i].dry /\ ~log[i + 1].dry)
      => (log[i + 1].fixes = <<>> /\ log[i + 1].after = log[i].after)

\* C2: a fix pass over a text that opens with a marker line and has no closing
\* marker line leaves the stored text as it was.
C2_UnclosedUntouched ==
  \A i \in FixPasses : Unclosed(log[i].before) => log[i].after = log[i].before

\* C3: a validation pass over a text that opens with a marker line and has no
\* closing marker line records exactly one Error and classifies it invalid.
C3_UnclosedOneError ==
  \A i \in ValidatePasses :
    Unclosed(log[i].before)
      => (Len(log[i].result.errors) = 1 /\ ~log[i].result.is_valid)

\* C4: after a fix pass, dry-run or not, the metadata mapping decoded from the
\* input has the value it was decoded to.
C4_InputNotMutated ==
  \A i \in FixPasses : log[i].input_after = log[i].metadata

\* C5: a dry-run fix pass returns the fix list the non-dry-run pass returns
\* from the same stored text, and leaves the stored text unchanged.
C5_DryRunEquivalence ==
  \A i \in FixPasses :
    log[i].dry => /\ log[i].fixes = FixFile(log[i].before, FALSE).fixes
                  /\ log[i].after = log[i].before
C5_Witness ==
  \E i \in FixPasses :
    /\ log[i].dry
    /\ log[i].fixes # <<>>
    /\ FixFile(log[i].before, FALSE).new_content # log[i].before

\* C6: in non-dry-run mode a non-empty fix list never accompanies an
\* unmodified file, and an empty list never a modified one.
C6_FixesMeanRewritten ==
  \A i \in FixPasses :
    ~log[i].dry => (log[i].fixes # <<>> <=> log[i].after # log[i].before)

\* C7: the fix list names the steps in the order syntax repair, coercion,
\* argument-hint synthesis, permission synthesis, and each step's record is
\* there exactly when its precondition holds of the working copy the steps
\* before it produced.
StepRank(kind) ==
  CASE kind = "quoted" -> 1
    [] kind = "coerced" -> 2
    [] kind \in HintKinds -> 3
    [] kind \in BashKinds -> 4
    [] OTHER -> 5
\* the metadata the text decodes to after the one syntax repair
Decoded(text) ==
  IF FrontmatterLoads(text).ok THEN FrontmatterLoads(text).metadata
  ELSE FrontmatterLoads(FixFrontmatterSyntax(text).content).metadata
ListsBash(md) ==
  /\ "allowed-tools" \in DOMAIN md
  /\ CASE md["allowed-tools"].ty = "str" -> ContainsBash(md["allowed-tools"].s)
       [] md["allowed-tools"].ty = "list" ->
            \E j \in 1..Len(md["allowed-tools"].l) : ContainsBash(md["allowed-tools"].l[j])
       [] OTHER -> FALSE
C7_StepOrder ==
  \A i \in FixPasses :
    LET f == log[i].fixes
        done == log[i].parsed /\ ~HasKind(f, {"unexpected_error"})
        wc1 == Decoded(log[i].before)
        wc2 == [k \in DOMAIN wc1 |->
                  IF k \in {"description", "argument-hint"} /\ wc1[k].ty = "list"
                    THEN Str(Join(" ", wc1[k].l)) ELSE wc1[k]]
        wc4 == log[i].new_metadata
        wc3 == IF HasKind(f, HintKinds)
                 THEN DictSet(wc2, "argument-hint", wc4["argument-hint"]) ELSE wc2
    IN /\ \A a, b \in 1..Len(f) : a < b => StepRank(f[a].kind) <= StepRank(f[b].kind)
       /\ done =>
            /\ \A k \in {"description", "argument-hint"} :
                 (\E a \in 1..Len(f) : f[a].kind = "coerced" /\ f[a].key = k)
                   <=> (k \in DOMAIN wc1 /\ wc1[k].ty = "list")
            /\ HasKind(f, HintKinds)
                 <=> ("argument-hint" \notin DOMAIN wc2
                      /\ (HasArguments(log[i].body) \/ PositionalArgs(log[i].body) # <<>>))
            /\ HasKind(f, BashKinds)
                 <=> (BashCommands(log[i].body) # <<>> /\ ~ListsBash(wc3))
            /\ \A k \in DOMAIN wc3 \ {"allowed-tools"} : wc4[k] = wc3[k]
C7_Witness ==
  \E i \in FixPasses :
    /\ HasKind(log[i].fixes, {"coerced"})
    /\ HasKind(log[i].fixes, HintKinds)
    /\ HasKind(log[i].fixes, BashKinds)

\* C8: with no argument-hint in the metadata, no $ARGUMENTS in the body and a
\* positional marker in the body, the fixer sets argument-hint to
\* "[arg1] ... [argN]", N the largest index referenced, and that hint is not
\* empty.
ExpectedHint(n) ==
  CASE n = 1 -> <<"[", "arg1", "]">>
    [] n = 2 -> <<"[", "arg1", "]", " ", "[", "arg2", "]">>
    [] n = 3 -> <<"[", "arg1", "]", " ", "[", "arg2", "]", " ", "[", "arg3", "]">>
    [] OTHER -> <<>>
C8_PositionalHint ==
  \A i \in FixPasses :
    (/\ log[i].parsed
     /\ "argument-hint" \notin DOMAIN log[i].metadata
     /\ ~HasArguments(log[i].body)
     /\ PositionalArgs(log[i].body) # <<>>)
      => /\ "argument-hint" \in DOMAIN log[i].new_metadata
         /\ log[i].new_metadata["argument-hint"].ty = "str"
         /\ log[i].new_metadata["argument-hint"].s # <<>>
         /\ \E n \in 0..3 :
              /\ \E k \in 1..Len(PositionalArgs(log[i].body)) :
                   PosIndex(PositionalArgs(log[i].body)[k]) = n
              /\ \A k \in 1..Len(PositionalArgs(log[i].body)) :
                   PosIndex(PositionalArgs(log[i].body)[k]) <= n
              /\ log[i].new_metadata["argument-hint"].s = ExpectedHint(n)

\* C9: a hint is synthesized only when the metadata has no argument-hint; an
\* existing argument-hint keeps its value (a sequence one its joined value);
\* with both $ARGUMENTS and positional markers in the body the synthesized
\* hint is "[args]" and no positional hint is recorded.
C9_CatchAllPrecedence ==
  \A i \in FixPasses :
    log[i].parsed =>
      LET md == log[i].metadata
          new == log[i].new_metadata
          f == log[i].fixes
      IN /\ HasKind(f, HintKinds) => "argument-hint" \notin DOMAIN md
         /\ "argument-hint" \in DOMAIN md =>
              new["argument-hint"] =
                (IF md["argument-hint"].ty = "list"
                   THEN Str(Join(" ", md["argument-hint"].l)) ELSE md["argument-hint"])
         /\ (/\ "argument-hint" \notin DOMAIN md
             /\ HasArguments(log[i].body)
             /\ PositionalArgs(log[i].body) # <<>>)
              => /\ new["argument-hint"] = Str(<<"[", "args", "]">>)
                 /\ HasKind(f, {"hint_generic"})
                 /\ ~HasKind(f, {"hint_positional"})
C9_Witness ==
  \E i \in FixPasses :
    /\ log[i].parsed
    /\ "argument-hint" \notin DOMAIN log[i].metadata
    /\ HasArguments(log[i].body)
    /\ PositionalArgs(log[i].body) # <<>>
    /\ HasKind(log[i].fixes, {"hint_generic"})

\* C10: when permission synthesis applies, allowed-tools keeps its shape: a
\* string s becomes "s, Bash", a sequence gets the one element Bash appended,
\* an absent field becomes the string Bash; Bash is then listed exactly once,
\* and the rewritten file decodes to that value.
BashCount(v) ==
  IF v.ty = "list"
    THEN Cardinality({ j \in 1..Len(v.l) : ContainsBash(v.l[j]) })
    ELSE Cardinality({ j \in 1..Len(v.s) : v.s[j] \in BashAtoms })
C10_PermissionShape ==
  \A i \in FixPasses :
    HasKind(log[i].fixes, BashKinds) =>
      LET md == log[i].metadata
          new == log[i].new_metadata["allowed-tools"]
      IN /\ "allowed-tools" \notin DOMAIN md => new = Str(<<"Bash">>)
         /\ ("allowed-tools" \in DOMAIN md /\ md["allowed-tools"].ty = "str")
              => new = Str(md["allowed-tools"].s \o <<", ", "Bash">>)
         /\ ("allowed-tools" \in DOMAIN md /\ md["allowed-tools"].ty = "list")
              => new = List(md["allowed-tools"].l \o <<(<<"Bash">>)>>)
         /\ BashCount(new) = 1
         /\ ~log[i].dry => FrontmatterLoads(log[i].after).metadata["allowed-tools"] = new
C10_Witness ==
  \E i \in FixPasses :
    /\ HasKind(log[i].fixes, BashKinds) /\ ~log[i].dry
    /\ "allowed-tools" \in DOMAIN log[i].metadata
    /\ log[i].metadata["allowed-tools"] = Str(<<"Edit">>)
    /\ log[i].new_metadata["allowed-tools"] = Str(<<"Edit", ", ", "Bash">>)
    /\ log[i].after # log[i].before


\* C11: permission synthesis is applied exactly when the body holds an
\* execution marker and allowed-tools is absent or names no shell-execution
\* tool; a tool whose name merely contains "Bash" (BashOutput) is not one.
ToolNames(v) ==
  CASE v.ty = "str" -> SplitComma(v.s, <<>>)
    [] v.ty = "list" -> v.l
    [] OTHER -> <<>>
ShellTools == {<<"Bash">>, <<"Bash(git:*)">>}
ListsShell(md) ==
  /\ "allowed-tools" \in DOMAIN md
  /\ \E j \in 1..Len(ToolNames(md["allowed-tools"])) :
       StripStr(ToolNames(md["allowed-tools"])[j]) \in ShellTools
C11_PermissionPrecondition ==
  \A i \in FixPasses :
    log[i].parsed =>
      (HasKind(log[i].fixes, BashKinds)
         <=> (BashCommands(log[i].body) # <<>> /\ ~ListsShell(log[i].metadata)))

\* C12: a description, argument-hint or model decoded as a sequence is replaced
\* by its elements joined with single spaces, and one fix is recorded for it.
StringFields == {"description", "argument-hint", "model"}
C12_CoercesStringFields ==
  \A i \in FixPasses :
    (log[i].parsed /\ ~HasKind(log[i].fixes, {"unexpected_error"})) =>
      \A k \in StringFields :
        (k \in DOMAIN log[i].metadata /\ log[i].metadata[k].ty = "list") =>
          /\ log[i].new_metadata[k] = Str(Join(" ", log[i].metadata[k].l))
          /\ Cardinality({ a \in 1..Len(log[i].fixes) :
                             log[i].fixes[a].kind = "coerced" /\ log[i].fixes[a].key = k }) = 1


\* ------------------------------------------------------------------ properties of the validation passes
\* what validate_file decodes the text of pass i to
Post(i) == FrontmatterLoads(log[i].before)
Warned(i, m) == m \in Range(log[i].result.warnings)
Erred(i, m) == m \in Range(log[i].result.errors)

\* C17: a validation pass over a decodable text whose body holds an execution
\* marker records an Error when allowed-tools is absent (a text with no
\* metadata block included) and when it is present and names no shell tool.
C17_BashNeedsPermission ==
  \A i \in ValidatePasses :
    (/\ Post(i).ok
     /\ BashCommands(Post(i).body) # <<>>
     /\ ~ListsShell(Post(i).metadata))
      => (log[i].result.errors # <<>> /\ ~log[i].result.is_valid)

\* C18: an unknown field name, a model outside the known set and a tool name
\* matching no pattern each put a Warning in the result, and the Errors of the
\* result are those of the other checks only.
UnknownModel(md) ==
  /\ "model" \in DOMAIN md
  /\ ~(md["model"].ty = "str" /\ Len(md["model"].s) = 1 /\ md["model"].s[1] \in VALID_MODELS)
UnknownTool(md) ==
  /\ "allowed-tools" \in DOMAIN md
  /\ \E j \in 1..Len(ToolNames(md["allowed-tools"])) :
       /\ StripStr(ToolNames(md["allowed-tools"])[j]) # <<>>
       /\ ~MatchesToolPattern(StripStr(ToolNames(md["allowed-tools"])[j]))
OtherErrors ==
  {"'description' field is empty", "'allowed-tools' must be a string or list",
   "'disable-model-invocation' must be a boolean", "File has no content after frontmatter",
   "Bash commands found but 'Bash' not in allowed-tools"}
C18_VocabularyWarnsOnly ==
  \A i \in ValidatePasses :
    Post(i).ok =>
      /\ DOMAIN Post(i).metadata \ VALID_FRONTMATTER_FIELDS # {}
           => Warned(i, "Unknown frontmatter fields")
      /\ UnknownModel(Post(i).metadata) => Warned(i, "Model may not be valid")
      /\ UnknownTool(Post(i).metadata) => Warned(i, "Tool may not be a valid tool name")
      /\ (\/ DOMAIN Post(i).metadata \ VALID_FRONTMATTER_FIELDS # {}
          \/ UnknownModel(Post(i).metadata)
          \/ UnknownTool(Post(i).metadata))
           => Range(log[i].result.errors) \subseteq OtherErrors

\* C19: a string description shorter than the minimum (an empty or blank one
\* included) gets a too-short Warning, one longer than the maximum a too-long
\* Warning, and neither gets an Error for its length.
StrDescription(md) == "description" \in DOMAIN md /\ md["description"].ty = "str"
C19_DescriptionLengthWarns ==
  \A i \in ValidatePasses :
    (Post(i).ok /\ StrDescription(Post(i).metadata)) =>
      /\ StrLen(StripStr(Post(i).metadata["description"].s)) < MinDescription
           => Warned(i, "'description' is very short")
      /\ StrLen(Post(i).metadata["description"].s) > MaxDescription
           => Warned(i, "'description' is very long")
      /\ ~Erred(i, "'description' field is empty")


\* ------------------------------------------------------------------ properties of the runs over a directory
\* the metadata block of the text cannot be decoded
Undecodable(content) == ~FrontmatterLoads(content).ok
ResultsFor(rs, path) == SelectSeq(rs, LAMBDA r : r.file_path = path)
\* the positions of the files a run processes
CommandFiles(dir) == SelectSeq([i \in 1..Len(dir) |-> i], LAMBDA i : ~IsReadme(dir[i]))

\* C13: for a file whose metadata block fails to decode a validator run
\* records exactly one Error and nothing else: no Warning, no Info, no
\* second Error.
C13_DecodeFailureOneError ==
  /\ run.tool = "validate" =>
       \A k \in 1..Len(run.results) :
         Undecodable(run.before[run.results[k].file_path].content) =>
           /\ Len(run.results[k].result.errors) = 1
           /\ run.results[k].result.warnings = <<>>
           /\ run.results[k].result.info = <<>>
  /\ run.tool = "script" =>
       \A i \in 1..Len(run.before) :
         (~IsReadme(run.before[i]) /\ Undecodable(run.before[i].content)) =>
           /\ Len(ResultsFor(run.results, i)) = 1
           /\ ResultsFor(run.results, i)[1].status = "FAIL"

\* C14: in every result of a validate_commands.py run is_valid is False
\* exactly when the errors list is non-empty; a file printed as fully valid
\* has no Warning and no Error, a file printed as invalid has an Error.
C14_MonotonicSeverity ==
  run.tool = "validate" =>
    /\ \A k \in 1..Len(run.results) :
         ~run.results[k].result.is_valid <=> run.results[k].result.errors # <<>>
    /\ \A k \in FullyValidFiles(run.results) :
         run.results[k].result.warnings = <<>> /\ run.results[k].result.errors = <<>>
    /\ \A k \in InvalidFiles(run.results) : run.results[k].result.errors # <<>>
C14_Witness ==
  /\ run.tool = "validate"
  /\ \E k \in InvalidFiles(run.results) : run.results[k].result.errors # <<>>
  /\ FullyValidFiles(run.results) # {}

\* C15: after a run of the repository validator no file has more than one
\* Pass verdict, and a file with a Pass verdict has no Warning and no FAIL.
C15_OnePassVerdict ==
  run.tool = "script" =>
    \A i \in 1..Len(run.before) :
      /\ Len(SelectSeq(ResultsFor(run.results, i), LAMBDA r : r.status = "PASS")) <= 1
      /\ (\E k \in 1..Len(run.results) :
            run.results[k].file_path = i /\ run.results[k].status = "PASS")
           => \A k \in 1..Len(run.results) :
                run.results[k].file_path = i => run.results[k].status \notin {"WARNING", "FAIL"}
C15_Witness ==
  /\ run.tool = "script"
  /\ \E a, b \in 1..Len(run.results) :
       /\ run.results[a].status = "PASS"
       /\ run.results[b].status \in {"WARNING", "FAIL"}
       /\ run.results[a].file_path # run.results[b].file_path

C20_PerDocumentIsolation ==
  /\ run.tool = "validate" =>
       /\ run.completed
       /\ Len(run.results) = Len(CommandFiles(run.before))
       /\ \A k \in 1..Len(run.results) :
            /\ run.results[k].file_path = CommandFiles(run.before)[k]
            /\ run.results[k].result = ValidateFile(run.before[run.results[k].file_path].content)
  /\ run.tool = "fix" =>
       /\ Len(directory) = Len(run.before)
       /\ \A k \in 1..Len(run.results) : ~IsReadme(run.before[run.results[k].file_path])
       /\ \A i \in 1..Len(run.before) :
            IF IsReadme(run.before[i]) THEN directory[i] = run.before[i]
            ELSE /\ directory[i].content =
                      (IF FixFile(run.before[i].content, run.flag).write
                         THEN FixFile(run.before[i].content, run.flag).new_content
                         ELSE run.before[i].content)
                 /\ ResultsFor(run.results, i) =
                      (IF FixFile(run.before[i].content, run.flag).fixes # <<>>
                         THEN <<[file_path |-> i,
                                 fixes |-> FixFile(run.before[i].content, run.flag).fixes]>>
                         ELSE <<>>)
C20_Witness ==
  /\ run.tool = "validate"
  /\ Len(run.results) >= 2
  /\ "Unexpected error" \in Range(run.results[1].result.errors)
  /\ run.results[2].result.is_valid

\* ------------------------------------------------------------------ properties of the rewrite
\* C21: while fix_file rewrites a file, a concurrent reader of that file gets
\* the complete original text or the complete fixed text, never an empty or a
\* partly written file, also when the write fails midway.
C21_AtomicRewrite ==
  observed.taken => observed.text \in {writing.original, writing.new_content}

\* the same for the reads that come before open() or after the last write
C21_OutsideTheWrite ==
  (observed.taken /\ observed.pc \in {"idle", "open"})
    => observed.text = writing.original

\* ------------------------------------------------------------------ properties of the syntax repair
\* a key: value line whose value holds a square bracket and opens with no quote
Repairable(l) == l.t = "kv" /\ NeedsQuoting(ValueToks(l))
\* the line with its value wrapped in double quotes
Wrapped(l) == IF Repairable(l) THEN KV(l.key, "dq", ValueToks(l)) ELSE l
\* the metadata block runs from line 2 to the line before the closing marker j
RepairedText(content, j) ==
  [k \in 1..Len(content) |-> IF k > 1 /\ k < j THEN Wrapped(content[k]) ELSE content[k]]
RECURSIVE RepairRecords(_, _, _)
RepairRecords(content, k, j) ==
  IF k >= j THEN <<>>
  ELSE (IF Repairable(content[k]) THEN <<FixRec("quoted", content[k].key, 0)>> ELSE <<>>)
         \o RepairRecords(content, k + 1, j)
\* what the repair step is to return for a text whose second marker line is j;
\* the block counts as complete when a line break ends its closing marker
RepairOf(content, j) ==
  IF content = <<>> \/ Head(content) # Marker \/ j = 0 \/ j >= Len(content)
    THEN [content |-> content, fixes |-> <<>>]
    ELSE [content |-> RepairedText(content, j), fixes |-> RepairRecords(content, 2, j)]
\* the passes whose first parse failed
RepairPasses == { i \in FixPasses : ~FrontmatterLoads(log[i].before).ok }
IsPrefix(a, b) == Len(a) <= Len(b) /\ SubSeq(b, 1, Len(a)) = a

\* C22: syntax repair rewrites exactly the metadata lines key: value whose value
\* holds a square bracket and opens with no quote, wrapping the value in double
\* quotes and recording one fix per rewritten line; all other lines and the body
\* stay, and a text with no complete block comes back unchanged with no fix.
\* It runs only after the first parse failed, and one parse follows it.
C22_SyntaxRepairFrame ==
  /\ \A i \in FixPasses \ RepairPasses : ~HasKind(log[i].fixes, {"quoted"})
  /\ \A i \in RepairPasses :
       /\ FixFrontmatterSyntax(log[i].before)
            = RepairOf(log[i].before, NextMarker(log[i].before, 2))
       /\ IsPrefix(FixFrontmatterSyntax(log[i].before).fixes, log[i].fixes)
       /\ log[i].parsed = FrontmatterLoads(FixFrontmatterSyntax(log[i].before).content).ok
       /\ ~log[i].parsed
            => log[i].fixes = Append(FixFrontmatterSyntax(log[i].before).fixes, CouldNotParse)

\* ------------------------------------------------------------------ properties of the Pass verdict
\* the statuses recorded for the file at position i
StatusesOf(rs, i) == { rs[k].status : k \in { n \in 1..Len(rs) : rs[n].file_path = i } }
Processed(dir) == { i \in 1..Len(dir) : ~IsReadme(dir[i]) }
InfoOnly(rs, i) == StatusesOf(rs, i) = {"INFO"}

\* C23: in the repository validator a file gets a Pass result exactly when no
\* result of any status, Info included, was recorded for it: after validate_all
\* every processed file has exactly one Pass and nothing else, or at least one
\* Warning, Fail or Info and no Pass; a file with Info results only is counted
\* under none of passed, warnings, failed.
C23_PassIffNoResults ==
  run.tool = "script" =>
    /\ \A i \in Processed(run.before) :
         \/ /\ StatusesOf(run.results, i) = {"PASS"}
            /\ Len(ResultsFor(run.results, i)) = 1
         \/ /\ "PASS" \notin StatusesOf(run.results, i)
            /\ StatusesOf(run.results, i) \cap {"WARNING", "FAIL", "INFO"} # {}
    /\ validate_all(run.before, run.flag).passed
         = Cardinality({ i \in Processed(run.before) : "PASS" \in StatusesOf(run.results, i) })
    /\ (/\ Processed(run.before) # {}
        /\ \A i \in Processed(run.before) : InfoOnly(run.results, i))
         => /\ validate_all(run.before, run.flag).passed = 0
            /\ validate_all(run.before, run.flag).warnings = 0
            /\ validate_all(run.before, run.flag).failed = 0
            /\ run.exit = 0
\* a run over a directory with a file that has Info results only, next to none
\* or to a file that passes
C23_Witness ==
  /\ run.tool = "script"
  /\ \E i \in Processed(run.before) : InfoOnly(run.results, i)
  /\ \A i \in Processed(run.before) :
       InfoOnly(run.results, i) \/ StatusesOf(run.results, i) = {"PASS"}

\* ------------------------------------------------------------------ properties of a fix pass followed by a validation pass
\* allowed-tools is absent, a string or a list of strings (the entries of a
\* decoded list are strings)
PlainTools(md) ==
  "allowed-tools" \in DOMAIN md => md["allowed-tools"].ty \in {"str", "list"}
\* the validation passes that read what a non-dry-run fix pass over a parsable
\* document with such an allowed-tools value left in the file
AfterFix ==
  { i \in ValidatePasses :
      /\ i > 1
      /\ log[i - 1].op = "fix" /\ ~log[i - 1].dry
      /\ FrontmatterLoads(log[i - 1].before).ok
      /\ PlainTools(FrontmatterLoads(log[i - 1].before).metadata) }

\* C24: fixer and validator agree on what the fixer repairs: validating the
\* output of a non-dry-run fix pass over a parsable document whose allowed-tools
\* is absent, a string or a list of strings yields neither the Error "Bash
\* commands found but 'Bash' not in allowed-tools" nor the Warning "Arguments
\* detected but no 'argument-hint' in frontmatter".
C24_FixerValidatorAgree ==
  \A i \in AfterFix :
    /\ log[i].before = log[i - 1].after
    /\ ~Erred(i, "Bash commands found but 'Bash' not in allowed-tools")
    /\ ~Warned(i, "Arguments detected but no 'argument-hint' in frontmatter")
\* a validation pass over a file the fixer has just given Bash and a hint
C24_Witness ==
  \E i \in AfterFix :
    /\ HasKind(log[i - 1].fixes, HintKinds)
    /\ HasKind(log[i - 1].fixes, BashKinds)
    /\ log[i - 1].after # log[i - 1].before
====
